---- MODULE Spec2Model ----
(***************************************************************************)
(* Model of student.py: the DatabaseManager record store (two SQLite       *)
(* tables) and the StudentPerformanceAnalyzer handlers built on it.        *)
(*                                                                         *)
(* Representation:                                                         *)
(*  - a text (Python str / SQLite TEXT) is a sequence of one-character     *)
(*    strings; texts are ordered as SQLite's BINARY collation orders them  *)
(*  - a REAL is an integer number of thousandths (95.5 is 95500); a value  *)
(*    that may be NULL/None is <<>> (NULL) or <<v>>                        *)
(*  - a date text "%Y-%m-%d" is the number of the day it names             *)
(*  - an average is the exact quotient [n |-> sum, d |-> count]            *)
(*  - last is the most recent call: its name, its arguments and what it    *)
(*    returned or showed.  What generate_analysis writes into              *)
(*    analysis_text and what generate_visualization embeds in              *)
(*    viz_canvas_frame is kept in last.ret; both handlers clear the widget *)
(*    first and no handler reads either widget back.                       *)
(*  - connections is the list of SQLite connections that were opened and   *)
(*    not closed: "write" is one left inside a transaction that holds the  *)
(*    database's write lock, "idle" one that holds no lock                 *)
(*  - schema is the set of tables that exist in the database file          *)
(***************************************************************************)
EXTENDS Integers, Sequences, FiniteSets, Bags, TLC

VARIABLES students, marks, sqlite_sequence, schema, connections, today,
          student_tree, last

vars == <<students, marks, sqlite_sequence, schema, connections, today,
          student_tree, last>>

tables == <<students, marks, sqlite_sequence, schema>>

(***************************************************************************)
(* Bounds                                                                  *)
(***************************************************************************)
MaxId == 3

MaxDay == 2

MaxAvgDen == 2

MaxOpen == 2

(***************************************************************************)
(* Texts                                                                   *)
(***************************************************************************)
Alphabet == <<" ", "+", "-", ".", "0", "1", "2", "3", "4", "5", "6", "7",
              "8", "9", "A", "M", "R", "S", "_", "a", "c", "e", "f", "h",
              "i", "n", "s", "t", "v", "x">>

Code(c) == CHOOSE i \in 1..Len(Alphabet) : Alphabet[i] = c

RECURSIVE TextLess(_, _)
TextLess(a, b) ==
    IF Len(a) = 0 THEN Len(b) > 0
    ELSE IF Len(b) = 0 THEN FALSE
    ELSE IF Code(Head(a)) # Code(Head(b)) THEN Code(Head(a)) < Code(Head(b))
    ELSE TextLess(Tail(a), Tail(b))

Scale == 1000

None == <<>>

Some(v) == <<v>>

T_10 == <<"1", "0">>

T_2 == <<"2">>

T_07 == <<"0", "7">>

T_Asha == <<"A", "s", "h", "a">>

T_Ravi == <<"R", "a", "v", "i">>

T_10A == <<"1", "0", "A">>

T_Math == <<"M", "a", "t", "h">>

T_Science == <<"S", "c", "i", "e", "n", "c", "e">>

(***************************************************************************)
(* DatabaseManager: the queries                                            *)
(***************************************************************************)
Rolls(S) == {s.roll_no : s \in S}

MinRoll(S) == CHOOSE r \in S : \A q \in S : q = r \/ TextLess(r, q)

RECURSIVE OrderByRoll(_)
OrderByRoll(S) ==
    IF S = {} THEN <<>>
    ELSE LET r == MinRoll(Rolls(S))
             row == CHOOSE s \in S : s.roll_no = r
         IN  <<row>> \o OrderByRoll(S \ {row})

get_all_students(S) == OrderByRoll(S)

RECURSIVE InsertBySubject(_, _)
InsertBySubject(sorted, row) ==
    IF Len(sorted) = 0 THEN <<row>>
    ELSE IF TextLess(row.subject, Head(sorted).subject)
         THEN <<row>> \o sorted
         ELSE <<Head(sorted)>> \o InsertBySubject(Tail(sorted), row)

OrderBySubject_Unsorted(rows) == rows

RECURSIVE OrderBySubject(_)
OrderBySubject(rows) ==
    IF Len(rows) = 0 THEN <<>>
    ELSE InsertBySubject(OrderBySubject(SubSeq(rows, 1, Len(rows) - 1)),
                         rows[Len(rows)])

MarkTriple(m) == [subject |-> m.subject, marks |-> m.marks,
                  exam_date |-> m.exam_date]

MapSeq(f(_), s) == [i \in 1..Len(s) |-> f(s[i])]

HasRoll(m, r) == m.roll_no = r

get_student_marks(M, roll_no) ==
    LET Sel(m) == HasRoll(m, roll_no)
    IN  MapSeq(MarkTriple, OrderBySubject(SelectSeq(M, Sel)))

JoinRow(s, m) == [roll_no |-> s.roll_no, name |-> s.name,
                  subject |-> m.subject, marks |-> m.marks]

RECURSIVE JoinStudents(_, _)
JoinStudents(srows, M) ==
    IF Len(srows) = 0 THEN <<>>
    ELSE LET s == Head(srows)
             Sel(m) == m.roll_no = s.roll_no
             J(m) == JoinRow(s, m)
         IN  MapSeq(J, OrderBySubject(SelectSeq(M, Sel)))
             \o JoinStudents(Tail(srows), M)

get_all_marks(S, M) == JoinStudents(OrderByRoll(S), M)

(***************************************************************************)
(* DatabaseManager: the statements that write.  Each returns the tables as *)
(* committed and the value the method returns.                             *)
(***************************************************************************)
Num(v) == [kind |-> "num", v |-> v]

NaN == [kind |-> "nan", v |-> 0]

BindReal(f) == IF f.kind = "nan" THEN None ELSE Some(f.v)

PyStr(t) == [t |-> "str", v |-> t]

PyInt(n) == [t |-> "int", v |-> n]

Digit(n) == SubSeq(Alphabet, 5, 14)[n + 1]

RECURSIVE NatToText(_)
NatToText(n) ==
    IF n < 10 THEN <<Digit(n)>> ELSE NatToText(n \div 10) \o <<Digit(n % 10)>>

IntToText(n) == IF n < 0 THEN <<"-">> \o NatToText(-n) ELSE NatToText(n)

BindText(pv) == IF pv.t = "int" THEN IntToText(pv.v) ELSE pv.v

PrimaryKeyFree(S, roll_no) == \A s \in S : s.roll_no # roll_no

StudentRow(roll_no, name, age, class_name, now) ==
    [roll_no |-> roll_no, name |-> name, age |-> age, class |-> class_name,
     created_date |-> now]

Returns(v) == [ok |-> v, raised |-> "none"]

Raises(exc) == [ok |-> FALSE, raised |-> exc]

Locked(C) == \E i \in DOMAIN C : C[i] = "write"

connect(C) == Append(C, "idle")

close(C) == SubSeq(C, 1, Len(C) - 1)

InTransaction(C) == [C EXCEPT ![Len(C)] = "write"]

add_student_Replace(S, C, roll_no, name, age, class_name, now) ==
    IF Locked(C)
    THEN [ret |-> Raises("OperationalError"), students |-> S,
          connections |-> connect(C)]
    ELSE [ret |-> Returns(TRUE),
          students |-> {s \in S : s.roll_no # roll_no}
                          \cup {StudentRow(roll_no, name, age, class_name, now)},
          connections |-> close(connect(C))]

add_student(S, C, roll_no, name, age, class_name, now) ==
    IF Locked(C)
    THEN [ret |-> Raises("OperationalError"), students |-> S,
          connections |-> connect(C)]
    ELSE IF PrimaryKeyFree(S, roll_no)
    THEN [ret |-> Returns(TRUE),
          students |-> S \cup {StudentRow(roll_no, name, age, class_name, now)},
          connections |-> close(connect(C))]
    ELSE [ret |-> Returns(FALSE), students |-> S,
          connections |-> InTransaction(connect(C))]

NextId_Count(M, seq) == Len(M) + 1

NextId(M, seq) == seq + 1

MarkRow(id, roll_no, subject, mk, exam_date) ==
    [id |-> id, roll_no |-> roll_no, subject |-> subject, marks |-> mk,
     max_marks |-> 100 * Scale, exam_date |-> exam_date]

ExamDate(exam_date, now) == IF exam_date = None THEN now ELSE exam_date[1]

add_marks(M, seq, C, roll_no, subject, mk, exam_date, now) ==
    IF Locked(C)
    THEN [ret |-> Raises("OperationalError"), marks |-> M, seq |-> seq,
          connections |-> connect(C)]
    ELSE [ret |-> Returns(TRUE),
          marks |-> Append(M, MarkRow(NextId(M, seq), roll_no, subject,
                                      BindReal(mk), ExamDate(exam_date, now))),
          seq |-> NextId(M, seq),
          connections |-> close(connect(C))]

DeleteMarks_All(M, roll_no) == <<>>

DeleteMarks(M, roll_no) ==
    LET Keep(m) == m.roll_no # BindText(roll_no) IN SelectSeq(M, Keep)

DeleteStudentRow(S, roll_no) == {s \in S : s.roll_no # BindText(roll_no)}

delete_student(S, M, C, roll_no) ==
    IF Locked(C)
    THEN [ret |-> Raises("OperationalError"), marks |-> M, students |-> S,
          connections |-> connect(C)]
    ELSE [ret |-> Returns(TRUE),
          marks |-> DeleteMarks(M, roll_no),
          students |-> DeleteStudentRow(S, roll_no),
          connections |-> close(connect(C))]

Tables == {"students", "marks"}

CreateTableIfNotExists_Replace(sch, name, rows, empty) == empty

CreateTableIfNotExists(sch, name, rows, empty) ==
    IF name \in sch THEN rows ELSE empty

create_tables(S, M, seq, sch, C) ==
    [students |-> CreateTableIfNotExists(sch, "students", S, {}),
     marks |-> CreateTableIfNotExists(sch, "marks", M, <<>>),
     seq |-> CreateTableIfNotExists(sch, "marks", seq, 0),
     schema |-> sch \cup Tables,
     connections |-> close(connect(C))]

(***************************************************************************)
(* State after DatabaseManager.__init__ on a new database file and         *)
(* StudentPerformanceAnalyzer.create_ui                                    *)
(***************************************************************************)
NoArg == [x |-> 0]

Init ==
    /\ students = {}
    /\ marks = <<>>
    /\ sqlite_sequence = 0
    /\ schema = Tables
    /\ connections = <<>>
    /\ today = 1
    /\ student_tree = <<>>
    /\ last = [op |-> "init", arg |-> NoArg, ret |-> Returns(TRUE)]

(***************************************************************************)
(* The record store called directly                                        *)
(***************************************************************************)
RollNos == {T_10, T_2}

Names == {T_Asha}

Ages == {20}

Classes == {T_10A}

Subjects == {T_Math, T_Science}

MarkValues == {Num(95 * Scale)}

ExamDates == {None}

db_create_tables ==
    LET r == create_tables(students, marks, sqlite_sequence, schema,
                           connections)
    IN  /\ students' = r.students
        /\ marks' = r.marks
        /\ sqlite_sequence' = r.seq
        /\ schema' = r.schema
        /\ connections' = r.connections
        /\ last' = [op |-> "create_tables", arg |-> NoArg, ret |-> Returns(TRUE)]
        /\ UNCHANGED <<today, student_tree>>

db_add_student(roll_no, name, age, class_name) ==
    LET r == add_student(students, connections, roll_no, name, age,
                         class_name, today)
    IN  /\ students' = r.students
        /\ connections' = r.connections
        /\ last' = [op |-> "add_student",
                    arg |-> [roll_no |-> roll_no, name |-> name, age |-> age,
                             class_name |-> class_name, now |-> today],
                    ret |-> r.ret]
        /\ UNCHANGED <<marks, sqlite_sequence, schema, today, student_tree>>

db_add_marks(roll_no, subject, mk, exam_date) ==
    LET r == add_marks(marks, sqlite_sequence, connections, roll_no, subject,
                       mk, exam_date, today)
    IN  /\ marks' = r.marks
        /\ sqlite_sequence' = r.seq
        /\ connections' = r.connections
        /\ last' = [op |-> "add_marks",
                    arg |-> [roll_no |-> roll_no, subject |-> subject,
                             marks |-> mk, exam_date |-> exam_date,
                             now |-> today],
                    ret |-> r.ret]
        /\ UNCHANGED <<students, schema, today, student_tree>>

db_get_all_students ==
    /\ last' = [op |-> "get_all_students", arg |-> NoArg,
                ret |-> [rows |-> get_all_students(students)]]
    /\ connections' = close(connect(connections))
    /\ UNCHANGED <<tables, today, student_tree>>

db_get_student_marks(roll_no) ==
    /\ last' = [op |-> "get_student_marks", arg |-> [roll_no |-> roll_no],
                ret |-> [rows |-> get_student_marks(marks, roll_no)]]
    /\ connections' = close(connect(connections))
    /\ UNCHANGED <<tables, today, student_tree>>

db_get_all_marks ==
    /\ last' = [op |-> "get_all_marks", arg |-> NoArg,
                ret |-> [rows |-> get_all_marks(students, marks)]]
    /\ connections' = close(connect(connections))
    /\ UNCHANGED <<tables, today, student_tree>>

db_delete_student(roll_no) ==
    LET r == delete_student(students, marks, connections, PyStr(roll_no))
    IN  /\ marks' = r.marks
        /\ students' = r.students
        /\ connections' = r.connections
        /\ last' = [op |-> "delete_student", arg |-> [roll_no |-> roll_no],
                    ret |-> r.ret]
        /\ UNCHANGED <<sqlite_sequence, schema, today, student_tree>>

(* the garbage collector finalises the connections that were never closed *)
gc ==
    /\ connections # <<>>
    /\ connections' = <<>>
    /\ UNCHANGED <<tables, today, student_tree, last>>

Tick ==
    /\ today < MaxDay
    /\ today' = today + 1
    /\ UNCHANGED <<tables, connections, student_tree, last>>

Next ==
    \/ db_create_tables
    \/ /\ Len(connections) < MaxOpen
       /\ \E r \in RollNos, n \in Names, a \in Ages, c \in Classes :
             db_add_student(r, n, a, c)
    \/ /\ sqlite_sequence < MaxId
       /\ Len(connections) < MaxOpen
       /\ \E r \in RollNos, s \in Subjects, m \in MarkValues, d \in ExamDates :
             db_add_marks(r, s, m, d)
    \/ db_get_all_students
    \/ \E r \in RollNos : db_get_student_marks(r)
    \/ db_get_all_marks
    \/ /\ Len(connections) < MaxOpen
       /\ \E r \in RollNos : db_delete_student(r)
    \/ gc
    \/ Tick

Spec == Init /\ [][Next]_vars

(***************************************************************************)
(* Text conversions used by the handlers: str.strip, int(str), float(str)  *)
(* and ttk's _convert_stringval.  float covers [sign] digits [. digits],   *)
(* nan and inf; a literal is read exactly as the quotient n / d.           *)
(***************************************************************************)
IsSpace(c) == c = " "

RECURSIVE lstrip(_)
lstrip(s) == IF Len(s) > 0 /\ IsSpace(Head(s)) THEN lstrip(Tail(s)) ELSE s

RECURSIVE rstrip(_)
rstrip(s) ==
    IF Len(s) > 0 /\ IsSpace(s[Len(s)])
    THEN rstrip(SubSeq(s, 1, Len(s) - 1))
    ELSE s

strip(s) == rstrip(lstrip(s))

IsDigit(c) == Code(c) >= Code("0") /\ Code(c) <= Code("9")

DigitVal(c) == Code(c) - Code("0")

RECURSIVE ParseDigits(_, _, _, _)
ParseDigits(s, acc, cnt, prev) ==
    IF Len(s) = 0 THEN [ok |-> prev = "digit", v |-> acc, n |-> cnt]
    ELSE IF IsDigit(Head(s))
         THEN ParseDigits(Tail(s), acc * 10 + DigitVal(Head(s)), cnt + 1, "digit")
    ELSE IF Head(s) = "_" /\ prev = "digit"
         THEN ParseDigits(Tail(s), acc, cnt, "under")
    ELSE [ok |-> FALSE, v |-> 0, n |-> 0]

Negative(t) == Len(t) > 0 /\ Head(t) = "-"

Unsigned(t) == IF Len(t) > 0 /\ Head(t) \in {"+", "-"} THEN Tail(t) ELSE t

int(s) ==
    LET t == strip(s)
        r == ParseDigits(Unsigned(t), 0, 0, "start")
    IN  [ok |-> r.ok, v |-> IF Negative(t) THEN 0 - r.v ELSE r.v]

RECURSIVE Pow10(_)
Pow10(k) == IF k = 0 THEN 1 ELSE 10 * Pow10(k - 1)

DotAt(b) == IF \E i \in DOMAIN b : b[i] = "."
            THEN CHOOSE i \in DOMAIN b : b[i] = "." /\ \A j \in 1..(i - 1) : b[j] # "."
            ELSE 0

float(s) ==
    LET t == strip(s)
        b == Unsigned(t)
        sgn == IF Negative(t) THEN 0 - 1 ELSE 1
        p == DotAt(b)
        ip == IF p = 0 THEN b ELSE SubSeq(b, 1, p - 1)
        fp == IF p = 0 THEN <<>> ELSE SubSeq(b, p + 1, Len(b))
        ir == IF Len(ip) = 0 THEN [ok |-> p # 0, v |-> 0, n |-> 0]
              ELSE ParseDigits(ip, 0, 0, "start")
        fr == IF Len(fp) = 0 THEN [ok |-> TRUE, v |-> 0, n |-> 0]
              ELSE ParseDigits(fp, 0, 0, "start")
    IN  IF b = <<"n", "a", "n">> THEN [ok |-> TRUE, kind |-> "nan", n |-> 0, d |-> 1]
        ELSE IF b = <<"i", "n", "f">>
             THEN [ok |-> TRUE, kind |-> "inf", n |-> sgn, d |-> 1]
        ELSE IF ir.ok /\ fr.ok /\ ir.n + fr.n > 0
             THEN [ok |-> TRUE, kind |-> "num",
                   n |-> sgn * (ir.v * Pow10(fr.n) + fr.v), d |-> Pow10(fr.n)]
        ELSE [ok |-> FALSE, kind |-> "error", n |-> 0, d |-> 1]

FloatLt0(f) == f.kind # "nan" /\ f.n < 0

FloatGt100(f) == (f.kind = "inf" /\ f.n > 0) \/ (f.kind = "num" /\ f.n > 100 * f.d)

ToReal(f) == IF f.kind = "nan" THEN NaN ELSE Num((f.n * Scale) \div f.d)

_convert_stringval(value) ==
    IF int(value).ok THEN PyInt(int(value).v) ELSE PyStr(value)

(***************************************************************************)
(* StudentPerformanceAnalyzer: the computations of the reports             *)
(***************************************************************************)
RECURSIVE Sum(_)
Sum(vals) == IF Len(vals) = 0 THEN 0 ELSE Head(vals) + Sum(Tail(vals))

HasNone(rows) == \E i \in DOMAIN rows : rows[i].marks = None

MarkOf(row) == row.marks[1]

mean(vals) == [n |-> Sum(vals), d |-> Len(vals)]

Min(vals) == CHOOSE v \in {vals[i] : i \in DOMAIN vals} :
                 \A i \in DOMAIN vals : v <= vals[i]

Max(vals) == CHOOSE v \in {vals[i] : i \in DOMAIN vals} :
                 \A i \in DOMAIN vals : v >= vals[i]

calculate_grade_Strict(avg) ==
    IF avg.n > 90 * Scale * avg.d THEN "A+"
    ELSE IF avg.n > 80 * Scale * avg.d THEN "A"
    ELSE IF avg.n > 70 * Scale * avg.d THEN "B"
    ELSE IF avg.n > 60 * Scale * avg.d THEN "C"
    ELSE IF avg.n > 50 * Scale * avg.d THEN "D"
    ELSE "F"

calculate_grade(avg) ==
    IF avg.n >= 90 * Scale * avg.d THEN "A+"
    ELSE IF avg.n >= 80 * Scale * avg.d THEN "A"
    ELSE IF avg.n >= 70 * Scale * avg.d THEN "B"
    ELSE IF avg.n >= 60 * Scale * avg.d THEN "C"
    ELSE IF avg.n >= 50 * Scale * avg.d THEN "D"
    ELSE "F"

MinText(S) == CHOOSE r \in S : \A q \in S : q = r \/ TextLess(r, q)

RECURSIVE sorted(_)
sorted(S) == IF S = {} THEN <<>>
             ELSE <<MinText(S)>> \o sorted(S \ {MinText(S)})

RECURSIVE keys(_, _)
keys(rows, field) ==
    IF Len(rows) = 0 THEN <<>>
    ELSE LET k == rows[Len(rows)][field]
             front == keys(SubSeq(rows, 1, Len(rows) - 1), field)
         IN  IF \E i \in DOMAIN front : front[i] = k THEN front
             ELSE Append(front, k)

MarksBy(rows, field, k) ==
    LET Sel(row) == row[field] = k
    IN  MapSeq(MarkOf, SelectSeq(rows, Sel))

NameOf(rows, roll_no) ==
    rows[CHOOSE i \in DOMAIN rows :
            /\ rows[i].roll_no = roll_no
            /\ \A j \in 1..(i - 1) : rows[j].roll_no # roll_no].name

StudentLine(rows, roll_no) ==
    LET info == MarksBy(rows, "roll_no", roll_no)
    IN  [roll_no |-> roll_no, name |-> NameOf(rows, roll_no),
         avg |-> mean(info), total |-> Sum(info),
         grade |-> calculate_grade(mean(info))]

SubjectLine(rows, subject) ==
    LET marks_list == MarksBy(rows, "subject", subject)
    IN  [subject |-> subject, mean |-> mean(marks_list),
         min |-> Min(marks_list), max |-> Max(marks_list)]

Keyset(rows, field) == {rows[i][field] : i \in DOMAIN rows}

analysis_NoEmptyCheck(all_marks) ==
    IF HasNone(all_marks) THEN [kind |-> "TypeError"]
    ELSE [kind |-> "report", total_records |-> Len(all_marks),
          total_students |-> Cardinality(Keyset(all_marks, "roll_no"))]

analysis(all_marks) ==
    IF Len(all_marks) = 0 THEN [kind |-> "nodata"]
    ELSE IF HasNone(all_marks) THEN [kind |-> "TypeError"]
    ELSE LET SL(r) == StudentLine(all_marks, r)
             BL(b) == SubjectLine(all_marks, b)
         IN  [kind |-> "report",
              total_records |-> Len(all_marks),
              total_students |-> Cardinality(Keyset(all_marks, "roll_no")),
              mean |-> mean(MapSeq(MarkOf, all_marks)),
              minimum |-> Min(MapSeq(MarkOf, all_marks)),
              maximum |-> Max(MapSeq(MarkOf, all_marks)),
              student_wise |-> MapSeq(SL, sorted(Keyset(all_marks, "roll_no"))),
              subject_wise |-> MapSeq(BL, sorted(Keyset(all_marks, "subject")))]

GradeLabels == <<"A+", "A", "B", "C", "D", "F">>

plot_student_performance(all_marks) ==
    IF HasNone(all_marks) THEN [kind |-> "TypeError"]
    ELSE LET Bar(r) == [student |-> r,
                        average |-> mean(MarksBy(all_marks, "roll_no", r))]
         IN  [kind |-> "chart", type |-> "Student Performance Bar Chart",
              bars |-> MapSeq(Bar, sorted(Keyset(all_marks, "roll_no")))]

plot_subject_average(all_marks) ==
    IF HasNone(all_marks) THEN [kind |-> "TypeError"]
    ELSE LET Bar(b) == [subject |-> b,
                        average |-> mean(MarksBy(all_marks, "subject", b))]
         IN  [kind |-> "chart", type |-> "Subject-wise Average",
              bars |-> MapSeq(Bar, keys(all_marks, "subject"))]

plot_grade_distribution_PerRow(all_marks) ==
    IF HasNone(all_marks) THEN [kind |-> "TypeError"]
    ELSE LET grades == [g \in {GradeLabels[i] : i \in DOMAIN GradeLabels} |->
                          Cardinality({i \in DOMAIN all_marks :
                              calculate_grade(mean(<<MarkOf(all_marks[i])>>)) = g})]
             Kept(g) == grades[g] > 0
             Size(g) == grades[g]
         IN  [kind |-> "chart", type |-> "Grade Distribution",
              labels |-> SelectSeq(GradeLabels, Kept),
              sizes |-> MapSeq(Size, SelectSeq(GradeLabels, Kept))]

plot_grade_distribution(all_marks) ==
    IF HasNone(all_marks) THEN [kind |-> "TypeError"]
    ELSE LET data == keys(all_marks, "roll_no")
             grades == [g \in {GradeLabels[i] : i \in DOMAIN GradeLabels} |->
                          Cardinality({i \in DOMAIN data :
                              calculate_grade(mean(MarksBy(all_marks, "roll_no",
                                                           data[i]))) = g})]
             Kept(g) == grades[g] > 0
             Size(g) == grades[g]
         IN  [kind |-> "chart", type |-> "Grade Distribution",
              labels |-> SelectSeq(GradeLabels, Kept),
              sizes |-> MapSeq(Size, SelectSeq(GradeLabels, Kept))]

DataFrameChart(type, all_marks) ==
    {[kind |-> "chart", type |-> type, frame |-> all_marks]}
    \cup (IF HasNone(all_marks) THEN {[kind |-> "TypeError"]} ELSE {})

ChartTypes == {"Student Performance Bar Chart", "Subject-wise Average",
               "Grade Distribution", "Performance Heatmap",
               "Box Plot by Subject"}

visualization(chart_type, all_marks) ==
    IF Len(all_marks) = 0 THEN {[kind |-> "nodata"]}
    ELSE IF chart_type = "Student Performance Bar Chart"
         THEN {plot_student_performance(all_marks)}
    ELSE IF chart_type = "Subject-wise Average"
         THEN {plot_subject_average(all_marks)}
    ELSE IF chart_type = "Grade Distribution"
         THEN {plot_grade_distribution(all_marks)}
    ELSE DataFrameChart(chart_type, all_marks)

(***************************************************************************)
(* StudentPerformanceAnalyzer: the handlers                                *)
(***************************************************************************)
Shown(kind, msg) == [dialog |-> kind, msg |-> msg, raised |-> "none"]

Raised(exc) == [dialog |-> "none", msg |-> "none", raised |-> exc]

Quiet == [dialog |-> "none", msg |-> "none", raised |-> "none"]

Handled(op, ret) == [op |-> op, arg |-> NoArg, ret |-> ret]

ui_add_student(roll_entry, name_entry, age_entry, class_entry) ==
    LET roll_no == strip(roll_entry)
        name == strip(name_entry)
        age == strip(age_entry)
        class_name == strip(class_entry)
        r == add_student(students, connections, roll_no, name, int(age).v,
                         class_name, today)
    IN  /\ IF \E f \in {roll_no, name, age, class_name} : Len(f) = 0
           THEN /\ last' = Handled("ui_add_student", Shown("showerror", "required"))
                /\ UNCHANGED <<students, connections>>
           ELSE IF ~int(age).ok
           THEN /\ last' = Handled("ui_add_student", Shown("showerror", "age"))
                /\ UNCHANGED <<students, connections>>
           ELSE /\ students' = r.students
                /\ connections' = r.connections
                /\ IF r.ret.raised # "none"
                   THEN last' = Handled("ui_add_student", Raised(r.ret.raised))
                   ELSE IF r.ret.ok
                   THEN last' = Handled("ui_add_student", Raised("AttributeError"))
                   ELSE last' = Handled("ui_add_student",
                                        Shown("showerror", "exists"))
        /\ UNCHANGED <<marks, sqlite_sequence, schema, today, student_tree>>

ui_add_marks(marks_roll_entry, subject_entry, marks_entry) ==
    LET roll_no == strip(marks_roll_entry)
        subject == strip(subject_entry)
        mk == strip(marks_entry)
        f == float(mk)
        r == add_marks(marks, sqlite_sequence, connections, roll_no, subject,
                       ToReal(f), None, today)
    IN  /\ IF \E t \in {roll_no, subject, mk} : Len(t) = 0
           THEN /\ last' = Handled("ui_add_marks", Shown("showerror", "required"))
                /\ UNCHANGED <<marks, sqlite_sequence, connections>>
           ELSE IF ~f.ok \/ FloatLt0(f) \/ FloatGt100(f)
           THEN /\ last' = Handled("ui_add_marks", Shown("showerror", "marks"))
                /\ UNCHANGED <<marks, sqlite_sequence, connections>>
           ELSE /\ marks' = r.marks
                /\ sqlite_sequence' = r.seq
                /\ connections' = r.connections
                /\ IF r.ret.raised # "none"
                   THEN last' = Handled("ui_add_marks", Raised(r.ret.raised))
                   ELSE last' = Handled("ui_add_marks", Shown("showinfo", "added"))
        /\ UNCHANGED <<students, schema, today, student_tree>>

refresh_student_list ==
    /\ student_tree' = get_all_students(students)
    /\ connections' = close(connect(connections))
    /\ last' = Handled("refresh_student_list", Quiet)
    /\ UNCHANGED <<tables, today>>

delete_selected_student(selected, confirm) ==
    IF selected = 0
    THEN /\ last' = Handled("delete_selected_student",
                            Shown("showwarning", "select"))
         /\ UNCHANGED <<tables, connections, today, student_tree>>
    ELSE IF ~confirm
    THEN /\ last' = Handled("delete_selected_student", Quiet)
         /\ UNCHANGED <<tables, connections, today, student_tree>>
    ELSE LET roll_no == _convert_stringval(student_tree[selected].roll_no)
             r == delete_student(students, marks, connections, roll_no)
         IN  /\ marks' = r.marks
             /\ students' = r.students
             /\ IF r.ret.raised # "none"
                THEN /\ connections' = r.connections
                     /\ student_tree' = student_tree
                     /\ last' = Handled("delete_selected_student",
                                        Raised(r.ret.raised))
                ELSE /\ connections' = close(connect(r.connections))
                     /\ student_tree' = get_all_students(r.students)
                     /\ last' = Handled("delete_selected_student",
                                        Shown("showinfo", "deleted"))
             /\ UNCHANGED <<sqlite_sequence, schema, today>>

generate_analysis ==
    /\ last' = [op |-> "generate_analysis", arg |-> NoArg,
                ret |-> [text |-> analysis(get_all_marks(students, marks))]]
    /\ connections' = close(connect(connections))
    /\ UNCHANGED <<tables, today, student_tree>>

generate_visualization(chart_type) ==
    /\ \E fig \in visualization(chart_type, get_all_marks(students, marks)) :
          last' = [op |-> "generate_visualization",
                   arg |-> [chart_var |-> chart_type],
                   ret |-> [canvas |-> fig]]
    /\ connections' = close(connect(connections))
    /\ UNCHANGED <<tables, today, student_tree>>

(***************************************************************************)
(* The application driven through its forms and buttons                    *)
(***************************************************************************)
MaxAppId == 2

RollEntries == {<<>>, T_07, <<" ">> \o T_10}

NameEntries == {<<" ">>, T_Asha}

AgeEntries == {<<>>, <<"2", "0">>, <<"2", "x">>}

ClassEntries == {<<>>, T_10A}

SubjectEntries == {<<>>, T_Math \o <<" ">>}

MarksEntries == {<<>>, <<"1", "0", "0">>, <<"4", "5">>, <<"n", "a", "n">>,
                 <<"1", "0", "0", ".", "0", "0", "1">>, <<"-", "1">>,
                 <<"i", "n", "f">>, <<"x">>}

NextApp ==
    \/ /\ Len(connections) < MaxOpen
       /\ \E r \in RollEntries, n \in NameEntries, a \in AgeEntries,
             c \in ClassEntries : ui_add_student(r, n, a, c)
    \/ /\ sqlite_sequence < MaxAppId
       /\ Len(connections) < MaxOpen
       /\ \E r \in RollEntries, s \in SubjectEntries, m \in MarksEntries :
             ui_add_marks(r, s, m)
    \/ refresh_student_list
    \/ /\ Len(connections) < MaxOpen
       /\ \E i \in 0..Len(student_tree), yes \in BOOLEAN :
             delete_selected_student(i, yes)
    \/ gc
    \/ generate_analysis
    \/ \E t \in ChartTypes : generate_visualization(t)

SpecApp == Init /\ [][NextApp]_vars

(***************************************************************************)
(* calculate_grade applied to averages around every threshold              *)
(***************************************************************************)
Eps == 2

Thresholds == {0, 50, 60, 70, 80, 90, 100}

Averages ==
    {[n |-> b * Scale * d + e, d |-> d] :
        b \in Thresholds, e \in (0 - Eps)..Eps, d \in 1..MaxAvgDen}
    \cup {[n |-> k * 1250, d |-> 1] : k \in 0..80}

call_calculate_grade(avg) ==
    /\ last' = [op |-> "calculate_grade", arg |-> [avg |-> avg],
                ret |-> [grade |-> calculate_grade(avg)]]
    /\ UNCHANGED <<tables, connections, today, student_tree>>

NextGrade == \E avg \in Averages : call_calculate_grade(avg)

SpecGrade == Init /\ [][NextGrade]_vars

(***************************************************************************)
(* Helpers of the properties                                               *)
(***************************************************************************)
Count(x, seq) == Cardinality({i \in DOMAIN seq : seq[i] = x})

SameBag(a, b) ==
    /\ Len(a) = Len(b)
    /\ \A i \in DOMAIN a : Count(a[i], a) = Count(a[i], b)

HasMarksOf(M, r) == \E i \in DOMAIN M : M[i].roll_no = r

RowsOf(S, q) == {s \in S : s.roll_no = q}

(* this step is a call of the record store's method op *)
Called(op) ==
    /\ last'.op = op
    /\ \/ last' # last
       \/ tables' # tables
       \/ Len(connections') > Len(connections)

(***************************************************************************)
(* C1: add_student returns False exactly when a Student with that roll_no  *)
(* already exists; a call that returns False leaves the students and marks *)
(* tables as they were; no two Students ever share a roll_no.              *)
(***************************************************************************)
RollNoUnique == \A s \in students, t \in students : s.roll_no = t.roll_no => s = t

C1_AddStudentStep ==
    Called("add_student") =>
        /\ (last'.ret = Returns(FALSE)) <=>
              (\E s \in students : s.roll_no = last'.arg.roll_no)
        /\ last'.ret = Returns(FALSE) => students' = students /\ marks' = marks

C1_DuplicateRejected == []RollNoUnique /\ [][C1_AddStudentStep]_vars

(* C1 holds of every call made while no connection holds the write lock *)
C1_UnlockedStep == ~Locked(connections) => C1_AddStudentStep

C1_WhenUnlocked == []RollNoUnique /\ [][C1_UnlockedStep]_vars

C1_WhenUnlocked_Witness ==
    /\ last.op = "add_student"
    /\ last.ret = Returns(FALSE)
    /\ \E s \in students : /\ s.roll_no = last.arg.roll_no
                           /\ s.created_date # last.arg.now

(***************************************************************************)
(* C2: delete_student(r) always returns success; right after it            *)
(* get_student_marks(r) is empty and get_all_students() has no record r;   *)
(* the marks of r never disappear in a step that leaves Student r present. *)
(***************************************************************************)
C2_Removed ==
    /\ get_student_marks(marks, last.arg.roll_no) = <<>>
    /\ \A i \in DOMAIN get_all_students(students) :
          get_all_students(students)[i].roll_no # last.arg.roll_no

C2_AfterDelete ==
    last.op = "delete_student" => last.ret = Returns(TRUE) /\ C2_Removed

C2_TogetherStep ==
    \A r \in RollNos :
        (HasMarksOf(marks, r) /\ ~HasMarksOf(marks', r)) =>
            \A s \in students' : s.roll_no # r

C2_DeleteRemovesBoth == []C2_AfterDelete /\ [][C2_TogetherStep]_vars

(* C2 holds of every delete_student that returns *)
C2_AfterReturn ==
    (last.op = "delete_student" /\ last.ret.raised = "none") =>
        last.ret = Returns(TRUE) /\ C2_Removed

C2_WhenReturned == []C2_AfterReturn /\ [][C2_TogetherStep]_vars

C2_WhenReturned_Witness ==
    /\ last.op = "delete_student"
    /\ last.ret = Returns(TRUE)
    /\ sqlite_sequence > Len(marks)
    /\ Len(marks) > 0
    /\ students # {}

(***************************************************************************)
(* C3: after add_student succeeds, get_all_students() has exactly one      *)
(* record for that roll_no, with the supplied name, age and class and the  *)
(* date of the insertion; get_all_students() is always in ascending        *)
(* roll_no order.                                                          *)
(***************************************************************************)
Ascending(rows) ==
    \A i \in DOMAIN rows, j \in DOMAIN rows :
        i < j => TextLess(rows[i].roll_no, rows[j].roll_no)

C3_Listed(S, a) ==
    LET Mine(s) == s.roll_no = a.roll_no
    IN  SelectSeq(get_all_students(S), Mine) =
           << [roll_no |-> a.roll_no, name |-> a.name, age |-> a.age,
               class |-> a.class_name, created_date |-> a.now] >>

C3_AddStep ==
    (Called("add_student") /\ PrimaryKeyFree(students, last'.arg.roll_no)) =>
        C3_Listed(students', last'.arg)

C3_AddThenList ==
    /\ []Ascending(get_all_students(students))
    /\ [][C3_AddStep]_vars

(* C3 holds of every add_student that returns True *)
C3_AfterReturn ==
    /\ Ascending(get_all_students(students))
    /\ (last.op = "add_student" /\ last.ret = Returns(TRUE)) =>
          C3_Listed(students, last.arg)

C3_WhenReturned == []C3_AfterReturn

C3_WhenReturned_Witness ==
    /\ last.op = "add_student"
    /\ last.ret = Returns(TRUE)
    /\ last.arg.now > 1
    /\ Len(get_all_students(students)) = 2
    /\ get_all_students(students)[1].roll_no = T_10
    /\ get_all_students(students)[2].roll_no = T_2

(***************************************************************************)
(* C4: get_all_marks() has exactly one row (roll_no, name, subject, marks) *)
(* per MarkEntry whose roll_no is that of an existing Student, the name    *)
(* being that Student's, and no row for any other MarkEntry; the rows are  *)
(* ordered by roll_no and then by subject.                                 *)
(***************************************************************************)
Expected(x) ==
    Cardinality({i \in DOMAIN marks :
        \E s \in students :
            /\ s.roll_no = marks[i].roll_no
            /\ x = [roll_no |-> s.roll_no, name |-> s.name,
                    subject |-> marks[i].subject, marks |-> marks[i].marks]})

Matched == {i \in DOMAIN marks : \E s \in students : s.roll_no = marks[i].roll_no}

RollThenSubject(rows) ==
    \A i \in DOMAIN rows, j \in DOMAIN rows :
        i < j => \/ TextLess(rows[i].roll_no, rows[j].roll_no)
                 \/ /\ rows[i].roll_no = rows[j].roll_no
                    /\ ~TextLess(rows[j].subject, rows[i].subject)

C4_InnerJoin ==
    LET J == get_all_marks(students, marks)
    IN  /\ Len(J) = Cardinality(Matched)
        /\ \A k \in DOMAIN J : Count(J[k], J) = Expected(J[k])
        /\ RollThenSubject(J)

C4_Witness ==
    /\ last.op = "get_all_marks"
    /\ Len(last.ret.rows) = 2
    /\ last.ret.rows[1].subject # last.ret.rows[2].subject
    /\ Len(marks) = 3
    /\ marks[1].subject = T_Science
    /\ Cardinality(students) = 1

(***************************************************************************)
(* C5: add_marks returns success whether or not the Student exists, adds   *)
(* exactly one MarkEntry, so that get_student_marks(roll_no) grows by that *)
(* (subject, marks, exam_date) entry with exam_date the current date when  *)
(* none is given, leaves the students table unchanged, and the ids of the  *)
(* MarkEntry rows are pairwise different.                                  *)
(***************************************************************************)
IdUnique == \A i \in DOMAIN marks, j \in DOMAIN marks :
                marks[i].id = marks[j].id => i = j

C5_AddMarksStep ==
    Called("add_marks") =>
        LET a == last'.arg
            entry == [subject |-> a.subject, marks |-> Some(a.marks.v),
                      exam_date |-> IF a.exam_date = None THEN today
                                    ELSE a.exam_date[1]]
        IN  /\ last'.ret = Returns(TRUE)
            /\ students' = students
            /\ Len(marks') = Len(marks) + 1
            /\ \A after \in {get_student_marks(marks', a.roll_no)},
                  before \in {Append(get_student_marks(marks, a.roll_no), entry)} :
                  SameBag(after, before)
            /\ \A q \in RollNos \ {a.roll_no} :
                  get_student_marks(marks', q) = get_student_marks(marks, q)

C5_AddMarks == []IdUnique /\ [][C5_AddMarksStep]_vars

(* C5 holds of every call made while no connection holds the write lock *)
C5_UnlockedStep == ~Locked(connections) => C5_AddMarksStep

C5_WhenUnlocked == []IdUnique /\ [][C5_UnlockedStep]_vars

C5_WhenUnlocked_Witness ==
    /\ last.op = "add_marks"
    /\ last.ret = Returns(TRUE)
    /\ \A s \in students : s.roll_no # last.arg.roll_no
    /\ students # {}
    /\ Len(marks) = 2
    /\ sqlite_sequence = 3
    /\ last.arg.now > 1

(***************************************************************************)
(* C6: a form submission that fails validation (an empty field, an age     *)
(* that is no integer, a marks text that is no real number in [0, 100])    *)
(* shows an error and leaves the students and marks tables unchanged, so   *)
(* every MarkEntry inserted through the Add Marks handler has marks within *)
(* [0, 100].                                                               *)
(***************************************************************************)
RealIn0To100(text) ==
    LET f == float(text)
    IN  f.ok /\ f.kind = "num" /\ f.n >= 0 /\ f.n <= 100 * f.d

InvalidStudentForm(r, n, a, c) ==
    (\E t \in {r, n, a, c} : Len(t) = 0) \/ ~int(a).ok

InvalidMarksForm(r, s, m) ==
    (\E t \in {r, s, m} : Len(t) = 0) \/ ~RealIn0To100(m)

Rejected == /\ last'.ret.dialog = "showerror"
            /\ students' = students
            /\ marks' = marks

C6_RejectStep ==
    /\ last'.op = "ui_add_student" =>
          \A r \in RollEntries, n \in NameEntries, a \in AgeEntries,
             c \in ClassEntries :
             (InvalidStudentForm(r, n, a, c) /\ ui_add_student(r, n, a, c))
                 => Rejected
    /\ last'.op = "ui_add_marks" =>
          \A r \in RollEntries, s \in SubjectEntries, m \in MarksEntries :
             (InvalidMarksForm(r, s, m) /\ ui_add_marks(r, s, m)) => Rejected

C6_MarksInRange ==
    \A i \in DOMAIN marks :
        /\ marks[i].marks # None
        /\ marks[i].marks[1] >= 0
        /\ marks[i].marks[1] <= 100 * Scale

C6_ValidationGuardsStore == []C6_MarksInRange /\ [][C6_RejectStep]_vars

(* every marks text but nan is handled as C6 says *)
C6_RejectStepButNaN ==
    /\ last'.op = "ui_add_student" =>
          \A r \in RollEntries, n \in NameEntries, a \in AgeEntries,
             c \in ClassEntries :
             (InvalidStudentForm(r, n, a, c) /\ ui_add_student(r, n, a, c))
                 => Rejected
    /\ last'.op = "ui_add_marks" =>
          \A r \in RollEntries, s \in SubjectEntries,
             m \in {t \in MarksEntries : float(t).kind # "nan"} :
             (InvalidMarksForm(r, s, m) /\ ui_add_marks(r, s, m)) => Rejected

C6_ButNaN == [][C6_RejectStepButNaN]_vars

(***************************************************************************)
(* C7: calculate_grade returns A+ for avg >= 90, A for 80 <= avg < 90, B   *)
(* for 70 <= avg < 80, C for 60 <= avg < 70, D for 50 <= avg < 60 and F    *)
(* for avg < 50: each boundary belongs to the higher grade and every       *)
(* average has exactly one of the six labels.                              *)
(***************************************************************************)
AtLeast(avg, b) == avg.n >= b * Scale * avg.d

C7_GradeThresholds ==
    last.op = "calculate_grade" =>
        LET a == last.arg.avg
            g == last.ret.grade
        IN  /\ g \in {"A+", "A", "B", "C", "D", "F"}
            /\ g = "A+" <=> AtLeast(a, 90)
            /\ g = "A" <=> AtLeast(a, 80) /\ ~AtLeast(a, 90)
            /\ g = "B" <=> AtLeast(a, 70) /\ ~AtLeast(a, 80)
            /\ g = "C" <=> AtLeast(a, 60) /\ ~AtLeast(a, 70)
            /\ g = "D" <=> AtLeast(a, 50) /\ ~AtLeast(a, 60)
            /\ g = "F" <=> ~AtLeast(a, 50)

C7_Witness ==
    /\ last.op = "calculate_grade"
    /\ last.arg.avg = [n |-> 50 * Scale * 2, d |-> 2]
    /\ last.ret.grade = "D"

(***************************************************************************)
(* C8: for any store contents the student-wise section written by          *)
(* generate_analysis has one line per roll_no occurring in                 *)
(* get_all_marks(), in ascending roll_no order, with the sum, the          *)
(* sum divided by the count and the grade of that student's joined marks.  *)
(***************************************************************************)
RECURSIVE TotalOf(_, _)
TotalOf(J, I) ==
    IF I = {} THEN 0
    ELSE LET i == CHOOSE i \in I : TRUE
         IN  J[i].marks[1] + TotalOf(J, I \ {i})

LinesMatch(J, lines) ==
    /\ Len(lines) = Cardinality({J[i].roll_no : i \in DOMAIN J})
    /\ \A i \in DOMAIN J : \E k \in DOMAIN lines : lines[k].roll_no = J[i].roll_no
    /\ Ascending(lines)
    /\ \A k \in DOMAIN lines :
          LET I == {i \in DOMAIN J : J[i].roll_no = lines[k].roll_no}
          IN  /\ lines[k].total = TotalOf(J, I)
              /\ lines[k].avg.d > 0
              /\ lines[k].avg.n * Cardinality(I) = TotalOf(J, I) * lines[k].avg.d
              /\ lines[k].grade = calculate_grade(lines[k].avg)

C8_StudentWise ==
    last.op = "generate_analysis" =>
        LET J == get_all_marks(students, marks)
        IN  IF Len(J) = 0 THEN last.ret.text.kind # "report"
            ELSE /\ last.ret.text.kind = "report"
                 /\ LinesMatch(J, last.ret.text.student_wise)

(* the same for a store none of whose joined marks is NULL *)
C8_WhenNoNull ==
    (last.op = "generate_analysis" /\ ~HasNone(get_all_marks(students, marks)))
        => C8_StudentWise

C8_WhenNoNull_Witness ==
    /\ last.op = "generate_analysis"
    /\ last.ret.text.kind = "report"
    /\ Len(last.ret.text.student_wise) = 2

(* the scenario S1 Math=95, Science=85 and S2 Math=55, Science=45 *)
T_S1 == <<"S", "1">>

T_S2 == <<"S", "2">>

ScenarioStudents ==
    add_student(add_student({}, <<>>, T_S1, T_Asha, 20, T_10A, 1).students,
                <<>>, T_S2, T_Ravi, 21, T_10A, 1).students

ScenarioMarks ==
    LET m1 == add_marks(<<>>, 0, <<>>, T_S2, T_Science, Num(45 * Scale), None, 1)
        m2 == add_marks(m1.marks, m1.seq, <<>>, T_S1, T_Science, Num(85 * Scale), None, 1)
        m3 == add_marks(m2.marks, m2.seq, <<>>, T_S2, T_Math, Num(55 * Scale), None, 1)
        m4 == add_marks(m3.marks, m3.seq, <<>>, T_S1, T_Math, Num(95 * Scale), None, 1)
    IN  m4.marks

IsValue(avg, b) == avg.n = b * Scale * avg.d

C8_Scenario ==
    LET J == get_all_marks(ScenarioStudents, ScenarioMarks)
        rep == analysis(J)
        pie == plot_grade_distribution(J)
    IN  /\ IsValue(rep.mean, 70)
        /\ Len(rep.student_wise) = 2
        /\ rep.student_wise[1].roll_no = T_S1
        /\ IsValue(rep.student_wise[1].avg, 90)
        /\ rep.student_wise[1].grade = "A+"
        /\ rep.student_wise[2].roll_no = T_S2
        /\ IsValue(rep.student_wise[2].avg, 50)
        /\ rep.student_wise[2].grade = "D"
        /\ rep.subject_wise[1].subject = T_Math
        /\ IsValue(rep.subject_wise[1].mean, 75)
        /\ pie.labels = <<"A+", "D">>
        /\ pie.sizes = <<1, 1>>

(***************************************************************************)
(* C9: the grade distribution that plot_grade_distribution computes has,   *)
(* for each grade label, the number of distinct roll_no values of          *)
(* get_all_marks() whose average maps to the label; labels counting zero   *)
(* are left out, every count kept is at least 1 and the counts kept sum to *)
(* the number of distinct roll_no values.                                  *)
(***************************************************************************)
StudentsGraded(J, g) ==
    {r \in {J[i].roll_no : i \in DOMAIN J} :
        LET I == {i \in DOMAIN J : J[i].roll_no = r}
        IN  calculate_grade([n |-> TotalOf(J, I), d |-> Cardinality(I)]) = g}

C9_GradeDistribution ==
    (/\ last.op = "generate_visualization"
     /\ last.arg.chart_var = "Grade Distribution"
     /\ last.ret.canvas.kind = "chart") =>
        LET J == get_all_marks(students, marks)
            pie == last.ret.canvas
        IN  /\ Len(pie.labels) = Len(pie.sizes)
            /\ \A i \in DOMAIN pie.labels, j \in DOMAIN pie.labels :
                  pie.labels[i] = pie.labels[j] => i = j
            /\ \A k \in DOMAIN pie.labels :
                  /\ pie.sizes[k] >= 1
                  /\ pie.sizes[k] = Cardinality(StudentsGraded(J, pie.labels[k]))
            /\ \A g \in {"A+", "A", "B", "C", "D", "F"} :
                  (\E k \in DOMAIN pie.labels : pie.labels[k] = g)
                      <=> StudentsGraded(J, g) # {}
            /\ Sum(pie.sizes) = Cardinality({J[i].roll_no : i \in DOMAIN J})

C9_Witness ==
    /\ last.op = "generate_visualization"
    /\ last.arg.chart_var = "Grade Distribution"
    /\ last.ret.canvas.kind = "chart"
    /\ last.ret.canvas.labels = <<"B">>
    /\ Len(get_all_marks(students, marks)) = 2
    /\ Len(marks) = 2

(***************************************************************************)
(* C10: with zero MarkEntry rows generate_analysis and                     *)
(* generate_visualization report that there is no data, compute nothing,   *)
(* raise nothing and leave the students and marks tables unchanged.        *)
(***************************************************************************)
C10_Notice ==
    Len(marks) = 0 =>
        /\ last.op = "generate_analysis" => last.ret.text = [kind |-> "nodata"]
        /\ last.op = "generate_visualization" =>
              last.ret.canvas = [kind |-> "nodata"]

C10_ReadOnlyStep ==
    (Len(marks) = 0 /\ (generate_analysis \/ \E t \in ChartTypes :
                                                generate_visualization(t)))
        => students' = students /\ marks' = marks

C10_EmptyDataset == []C10_Notice /\ [][C10_ReadOnlyStep]_vars

C10_Witness ==
    /\ last.op = "generate_analysis"
    /\ Len(marks) = 0
    /\ sqlite_sequence > 0
    /\ students # {}

(***************************************************************************)
(* C11: every record store call releases the connection it opened before   *)
(* it returns, also add_student returning False for a duplicate roll_no:   *)
(* after any sequence of completed calls no connection is open.            *)
(***************************************************************************)
C11_ConnectionsReleased == connections = <<>>

(* every return path but add_student's False releases the connection *)
C11_ReleaseStep ==
    /\ \A op \in {"create_tables", "add_student", "add_marks", "delete_student"} :
          (Called(op) /\ last'.ret.raised = "none"
                      /\ ~(op = "add_student" /\ last'.ret = Returns(FALSE)))
              => connections' = connections
    /\ \A op \in {"get_all_students", "get_student_marks", "get_all_marks"} :
          Called(op) => connections' = connections

C11_ButDuplicate == [][C11_ReleaseStep]_vars

(***************************************************************************)
(* C12: no operation updates a row in place: while a Student is in the     *)
(* store its name, age, class and created_date are those of its insertion, *)
(* while a MarkEntry is in the store its roll_no, subject, marks and       *)
(* exam_date are those of its insertion, rows leave the store only through *)
(* delete_student, and the read operations change nothing.                 *)
(***************************************************************************)
ReadOps == {"get_all_students", "get_student_marks", "get_all_marks",
            "generate_analysis", "generate_visualization"}

C12_RowsKeptStep ==
    /\ \A s \in students, t \in students' : s.roll_no = t.roll_no => s = t
    /\ \A i \in DOMAIN marks, j \in DOMAIN marks' :
          marks[i].id = marks'[j].id => marks[i] = marks'[j]

C12_LeaveByDeleteStep ==
    \A r \in {s.roll_no : s \in students \ students'}
           \cup {marks[i].roll_no : i \in {k \in DOMAIN marks :
                     \A j \in DOMAIN marks' : marks'[j].id # marks[k].id}} :
        /\ last'.op = "delete_student"
        /\ last'.arg.roll_no = r
        /\ last'.ret = Returns(TRUE)

C12_ReadStep ==
    (last'.op \in ReadOps /\ (last' # last \/ tables' # tables))
        => tables' = tables

C12_NeverUpdated ==
    [][C12_RowsKeptStep /\ C12_LeaveByDeleteStep /\ C12_ReadStep]_vars

(* the same of the handlers: no row is updated, the reports change nothing *)
C12_Handlers == [][C12_RowsKeptStep /\ C12_ReadStep]_vars

C12_Witness ==
    /\ last.op = "add_student"
    /\ last.ret = Returns(FALSE)
    /\ connections = <<"write">>
    /\ \E s \in students : s.roll_no = last.arg.roll_no /\ s.created_date < today
    /\ \E i \in DOMAIN marks : marks[i].exam_date < today
    /\ Len(marks) < sqlite_sequence

(***************************************************************************)
(* C13: create_tables is idempotent: a further call leaves every Student   *)
(* and MarkEntry row and the schema as they are, and one call gives what   *)
(* any number of calls give.                                               *)
(***************************************************************************)
C13_Once(S, M, seq, sch) == create_tables(S, M, seq, sch, <<>>)

C13_Twice(S, M, seq, sch) ==
    LET r == C13_Once(S, M, seq, sch)
    IN  C13_Once(r.students, r.marks, r.seq, r.schema)

C13_SameAsOnce ==
    /\ C13_Twice(students, marks, sqlite_sequence, schema) =
          C13_Once(students, marks, sqlite_sequence, schema)
    /\ C13_Twice({}, <<>>, 0, {}) = C13_Once({}, <<>>, 0, {})

C13_CallStep == Called("create_tables") => tables' = tables

C13_Idempotent == []C13_SameAsOnce /\ [][C13_CallStep]_vars

C13_Witness ==
    /\ last.op = "create_tables"
    /\ students # {}
    /\ Len(marks) = 2
    /\ sqlite_sequence = 3

(***************************************************************************)
(* C14: the Add Student form handler, given valid fields and a roll_no not *)
(* in the store, runs to completion: the student is inserted, a success    *)
(* message is shown and the displayed list is refreshed, so that it equals *)
(* get_all_students() and contains the new student.                        *)
(***************************************************************************)
C14_CompletesStep ==
    last'.op = "ui_add_student" =>
        \A r \in RollEntries, n \in NameEntries, a \in AgeEntries,
           c \in ClassEntries :
           (/\ ~InvalidStudentForm(strip(r), strip(n), strip(a), strip(c))
            /\ PrimaryKeyFree(students, strip(r))
            /\ ui_add_student(r, n, a, c))
               => /\ last'.ret.dialog = "showinfo"
                  /\ \E s \in students' : s.roll_no = strip(r)
                  /\ student_tree' = get_all_students(students')
                  /\ \E i \in DOMAIN student_tree' :
                        student_tree'[i].roll_no = strip(r)

C14_AddStudentCompletes == [][C14_CompletesStep]_vars

(* what the handler does instead: the insertion is committed, the call of *)
(* messagebox.showsuccess raises and the list is left as it was           *)
C14_RaisesStep ==
    last'.op = "ui_add_student" =>
        \A r \in RollEntries, n \in NameEntries, a \in AgeEntries,
           c \in ClassEntries :
           (/\ ~InvalidStudentForm(strip(r), strip(n), strip(a), strip(c))
            /\ PrimaryKeyFree(students, strip(r))
            /\ ~Locked(connections)
            /\ ui_add_student(r, n, a, c))
               => /\ last'.ret = Raised("AttributeError")
                  /\ \E s \in students' : s.roll_no = strip(r)
                  /\ student_tree' = student_tree

C14_Raises == [][C14_RaisesStep]_vars

(***************************************************************************)
(* C15: marks added for a roll_no without a Student stay in the store: as  *)
(* soon as add_student(r) succeeds, get_all_marks() has them under the new *)
(* Student's name.  After delete_student(r), a later add_student(r) finds  *)
(* of r only the marks added since that deletion (none when add_marks(r)   *)
(* was not called in between): no mark recorded before the deletion        *)
(* reappears.                                                              *)
(***************************************************************************)
Added(r) ==
    /\ last.op = "add_student"
    /\ last.ret = Returns(TRUE)
    /\ last.arg.roll_no = r

Deleted(r) ==
    /\ last.op = "delete_student"
    /\ last.ret = Returns(TRUE)
    /\ last.arg.roll_no = r

C15_VisibleStep ==
    (Called("add_student") /\ last'.ret = Returns(TRUE)) =>
        LET a == last'.arg
            J == get_all_marks(students', marks')
            Own == {i \in DOMAIN marks : marks[i].roll_no = a.roll_no}
        IN  /\ \A i \in Own :
                  \E k \in DOMAIN J :
                      J[k] = [roll_no |-> a.roll_no, name |-> a.name,
                              subject |-> marks[i].subject,
                              marks |-> marks[i].marks]
            /\ Cardinality({k \in DOMAIN J : J[k].roll_no = a.roll_no})
                  = Cardinality(Own)

C15_OnlyLaterMarks ==
    \A r \in RollNos, k \in 0..MaxId :
        []((Deleted(r) /\ sqlite_sequence = k) =>
              [](\A i \in DOMAIN marks :
                    marks[i].roll_no = r => marks[i].id > k))

C15_EmptyWhenNoneAdded ==
    \A r \in RollNos, k \in 0..MaxId :
        []((Deleted(r) /\ sqlite_sequence = k) =>
              []((Added(r) /\ sqlite_sequence = k) =>
                    get_student_marks(marks, r) = <<>>))

(* ids are issued in increasing order, so the marks recorded up to a *)
(* moment are those whose id is at most sqlite_sequence at that moment *)
C15_IdsIssued == \A i \in DOMAIN marks : marks[i].id <= sqlite_sequence

C15_DeleteStep ==
    (Called("delete_student") /\ last'.ret = Returns(TRUE)) =>
        \A j \in DOMAIN marks' : marks'[j].roll_no # last'.arg.roll_no

C15_EnterStep ==
    \A j \in DOMAIN marks' :
        \/ \E i \in DOMAIN marks : marks[i] = marks'[j]
        \/ /\ marks'[j].id > sqlite_sequence
           /\ last'.op = "add_marks"
           /\ last'.arg.roll_no = marks'[j].roll_no

C15_OrphanMarksKept ==
    /\ []C15_IdsIssued
    /\ [][C15_VisibleStep /\ C15_DeleteStep /\ C15_EnterStep]_vars

(* the same over whole behaviours *)
C15_AfterDeletion == C15_OnlyLaterMarks /\ C15_EmptyWhenNoneAdded

(* as first stated: whatever is called between delete_student(r) and the *)
(* add_student(r) that follows it, that add_student finds                *)
(* get_student_marks(r) empty; here with one add_marks in between        *)
C15_AsStated ==
    \A r \in RollNos, q \in RollNos, sb \in Subjects, mk \in MarkValues,
       n \in Names, ag \in Ages, c \in Classes :
        LET d == delete_student(students, marks, connections, PyStr(r))
            k == add_marks(d.marks, sqlite_sequence, d.connections, q, sb, mk,
                           None, today)
            x == add_student(d.students, k.connections, r, n, ag, c, today)
        IN  (/\ RowsOf(students, r) # {}
             /\ HasMarksOf(marks, r)
             /\ d.ret = Returns(TRUE)
             /\ k.ret = Returns(TRUE)
             /\ x.ret = Returns(TRUE))
                => get_student_marks(k.marks, r) = <<>>

C15_Witness ==
    /\ Added(T_2)
    /\ Len(get_all_marks(students, marks)) = 1
    /\ Len(marks) = 1
    /\ marks[1].roll_no = T_2
    /\ marks[1].id = 3

(***************************************************************************)
(* C16: delete_student(r) changes nothing of another roll_no: for every    *)
(* q other than r the Student row q and get_student_marks(q) are after the *)
(* call what they were before it, and when neither a Student nor a         *)
(* MarkEntry of r exists the whole store is unchanged.                     *)
(***************************************************************************)
C16_FrameStep ==
    Called("delete_student") =>
        LET r == last'.arg.roll_no
        IN  /\ \A q \in RollNos \ {r} :
                  /\ RowsOf(students', q) = RowsOf(students, q)
                  /\ get_student_marks(marks', q) = get_student_marks(marks, q)
            /\ (RowsOf(students, r) = {} /\ ~HasMarksOf(marks, r)) =>
                  tables' = tables

C16_DeleteFrame == [][C16_FrameStep]_vars

C16_Witness ==
    /\ Deleted(T_10)
    /\ RowsOf(students, T_2) # {}
    /\ Len(get_student_marks(marks, T_2)) = 2
    /\ sqlite_sequence = 3

====
